---- MODULE Spec2Model ----
(***************************************************************************)
(* A model of the dense matrix library (src/structs/dense/matrix.rs and    *)
(* src/helpers): the index selector, the raw storage, the matrix value,    *)
(* the result wrapper and the three binary kernels.                        *)
(*                                                                         *)
(* A matrix is the record of the fields of struct Matrix.  In the operator *)
(* algebra (SpecOps) operands are moved into the operator and a fresh      *)
(* result comes out, so a matrix is taken with its storage block: data is  *)
(* the sequence of the block's slots (slot at offset k is data[k + 1]).    *)
(* In the storage model (SpecGet, SpecMat) data is the address of the      *)
(* block in a flat memory, as NonNull<T> is, so that an access through     *)
(* get_data_mut_unchecked lands where the address arithmetic puts it.      *)
(***************************************************************************)
EXTENDS Integers, Sequences, FiniteSets, TLC

\* ---- bounds of the operator algebra ----
MaxDim == 2
MaxChain == 2

\* ---- bounds of the storage model ----
MaxRows == 2
MaxCols == 3
HeapSize == 12
MaxOps == 3

VARIABLES
    \* the operator algebra: the operation last applied, its operands, its
    \* result, the kernel it ran, and the number of operators applied
    lhs, rhs, op, res, kernel, n,
    \* the storage model: the memory, the matrix m and a second matrix d made
    \* from it, the method last called and the number of calls
    mem, m, d, last, calls,
    \* history: the matrix a run of t() calls started from, the t() and p()
    \* calls made on m, the flag states m went through, and whether a t() call
    \* reached outside its block
    tsnap, tcalls, pcalled, seen, oob

opvars == <<lhs, rhs, op, res, kernel, n>>
memvars == <<mem, m, d, last, calls, tsnap, tcalls, pcalled, seen, oob>>
vars == <<lhs, rhs, op, res, kernel, n,
          mem, m, d, last, calls, tsnap, tcalls, pcalled, seen, oob>>

\* ---- helpers/errors.rs ----
InvalidDimensions(a, b) == <<a, b>>

\* ---- MatOpResult: Ok(matrix) or Err(error) ----
\* the side a Result does not hold is a fixed placeholder, so that any two
\* Results compare
NoMatrix ==
    [rows |-> 0, cols |-> 0, data |-> <<>>,
     scale |-> 0, shift |-> 0, transposed |-> FALSE, pointwise |-> FALSE]
NoError == <<<<0, 0>>, <<0, 0>>>>
Ok(x) == [ok |-> TRUE, val |-> x, err |-> NoError]
Err(e) == [ok |-> FALSE, val |-> NoMatrix, err |-> e]
NoResult == [ok |-> FALSE, val |-> NoMatrix, err |-> NoError]

\* ---- the element type T: u8, the narrowest type the blanket impl of
\* Numerical admits; +, - and * wrap as in a release build ----
TModulus == 256
TAdd(x, y) == (x + y) % TModulus
TSub(x, y) == (x - y) % TModulus
TMul(x, y) == (x * y) % TModulus

\* ---- Matrix::new on a storage block taken as a value ----
Zeroed(len) == [k \in 1..len |-> 0]

new(rows, cols) ==
    [rows |-> rows, cols |-> cols, data |-> Zeroed(rows * cols),
     scale |-> 1, shift |-> 0, transposed |-> FALSE, pointwise |-> FALSE]

\* mat!: new, then the literal copied over the block from offset 0
mat(rows, cols, lit) ==
    [new(rows, cols) EXCEPT !.data = [k \in 1..(rows * cols) |->
                                         IF k <= Len(lit) THEN lit[k] ELSE @[k]]]

\* slot at offset index of the block of matrix x
slot(x, index) == x.data[index + 1]

\* ---- kernels ----
\* the triple loop of matmul, one += per step, in the code's order (i, j, k)
RECURSIVE matmul_loop(_, _, _, _)
matmul_loop(l, r, result, step) ==
    IF step >= l.rows * r.cols * l.cols THEN result
    ELSE LET i == step \div (r.cols * l.cols)
             j == (step \div l.cols) % r.cols
             k == step % l.cols
             at == i * result.cols + j
         IN matmul_loop(l, r,
               [result EXCEPT !.data[at + 1] =
                    TAdd(@, TMul(slot(l, i * l.cols + k), slot(r, k * r.cols + j)))],
               step + 1)

\* matmul with the result indexed by the left operand's stride
RECURSIVE matmul_loop_lstride(_, _, _, _)
matmul_loop_lstride(l, r, result, step) ==
    IF step >= l.rows * r.cols * l.cols THEN result
    ELSE LET i == step \div (r.cols * l.cols)
             j == (step \div l.cols) % r.cols
             k == step % l.cols
             at == (i * l.cols + j) % (result.rows * result.cols)
         IN matmul_loop_lstride(l, r,
               [result EXCEPT !.data[at + 1] =
                    TAdd(@, TMul(slot(l, i * l.cols + k), slot(r, k * r.cols + j)))],
               step + 1)

matmul_lstride(l, r) ==
    IF l.cols # r.rows
    THEN Err(InvalidDimensions(<<0, l.cols>>, <<r.rows, 0>>))
    ELSE Ok(matmul_loop_lstride(l, r, new(l.rows, r.cols), 0))

\* matmul reporting the operands' full shapes, as the other kernels do
matmul_fullshape(l, r) ==
    IF l.cols # r.rows
    THEN Err(InvalidDimensions(<<l.rows, l.cols>>, <<r.rows, r.cols>>))
    ELSE Ok(matmul_loop(l, r, new(l.rows, r.cols), 0))

matmul(l, r) ==
    IF l.cols # r.rows
    THEN Err(InvalidDimensions(<<0, l.cols>>, <<r.rows, 0>>))
    ELSE Ok(matmul_loop(l, r, new(l.rows, r.cols), 0))

pointwisemul(l, r) ==
    IF l.rows # r.rows \/ l.cols # r.cols
    THEN Err(InvalidDimensions(<<l.rows, l.cols>>, <<r.rows, r.cols>>))
    ELSE Ok([new(l.rows, l.cols) EXCEPT !.data =
                [i \in 1..(l.rows * l.cols) |-> TMul(slot(l, i - 1), slot(r, i - 1))]])

matadd(l, r) ==
    IF l.rows # r.rows \/ l.cols # r.cols
    THEN Err(InvalidDimensions(<<l.rows, l.cols>>, <<r.rows, r.cols>>))
    ELSE Ok([new(l.rows, l.cols) EXCEPT !.data =
                [i \in 1..(l.rows * l.cols) |-> TAdd(slot(l, i - 1), slot(r, i - 1))]])

\* matsub with its operands swapped
matsub_swapped(l, r) ==
    IF l.rows # r.rows \/ l.cols # r.cols
    THEN Err(InvalidDimensions(<<l.rows, l.cols>>, <<r.rows, r.cols>>))
    ELSE Ok([new(l.rows, l.cols) EXCEPT !.data =
                [i \in 1..(l.rows * l.cols) |-> TSub(slot(r, i - 1), slot(l, i - 1))]])

matsub(l, r) ==
    IF l.rows # r.rows \/ l.cols # r.cols
    THEN Err(InvalidDimensions(<<l.rows, l.cols>>, <<r.rows, r.cols>>))
    ELSE Ok([new(l.rows, l.cols) EXCEPT !.data =
                [i \in 1..(l.rows * l.cols) |-> TSub(slot(l, i - 1), slot(r, i - 1))]])

\* ---- the operator impls: what came out and which kernel ran ----
Ran(k, out) == [kernel |-> k, out |-> out]
Returned(out) == [kernel |-> "none", out |-> out]

\* the dispatch reading the left operand's flag alone
mul_dispatch_lhsflag(l, r) ==
    IF l.pointwise
    THEN Ran("pointwisemul", pointwisemul(l, r))
    ELSE Ran("matmul", matmul(l, r))

mul_dispatch(l, r) ==
    IF l.pointwise \/ r.pointwise
    THEN Ran("pointwisemul", pointwisemul(l, r))
    ELSE Ran("matmul", matmul(l, r))

mul_MM(self, r) == mul_dispatch(self, r)

mul_MR(self, r) ==
    IF ~r.ok THEN Returned(r) ELSE mul_dispatch(self, r.val)

mul_RM(self, r) ==
    IF ~self.ok THEN Returned(self) ELSE mul_dispatch(self.val, r)

\* Result * Result unwrapping the right operand first
mul_RR_rightfirst(self, r) ==
    IF ~r.ok THEN Returned(r)
    ELSE IF ~self.ok THEN Returned(self)
    ELSE mul_dispatch(self.val, r.val)

mul_RR(self, r) ==
    IF ~self.ok THEN Returned(self)
    ELSE IF ~r.ok THEN Returned(r)
    ELSE mul_dispatch(self.val, r.val)

add_MM(self, r) == Ran("matadd", matadd(self, r))

add_MR(self, r) ==
    IF ~r.ok THEN Returned(r) ELSE Ran("matadd", matadd(self, r.val))

add_RM(self, r) ==
    IF ~self.ok THEN Returned(self) ELSE Ran("matadd", matadd(self.val, r))

add_RR(self, r) ==
    IF ~self.ok THEN Returned(self)
    ELSE IF ~r.ok THEN Returned(r)
    ELSE Ran("matadd", matadd(self.val, r.val))

sub_MM(self, r) == Ran("matsub", matsub(self, r))

sub_MR(self, r) ==
    IF ~r.ok THEN Returned(r) ELSE Ran("matsub", matsub(self, r.val))

sub_RM(self, r) ==
    IF ~self.ok THEN Returned(self) ELSE Ran("matsub", matsub(self.val, r))

sub_RR(self, r) ==
    IF ~self.ok THEN Returned(self)
    ELSE IF ~r.ok THEN Returned(r)
    ELSE Ran("matsub", matsub(self.val, r.val))

\* the method last called on a matrix: its name, the matrix it was called on
\* and, for get, the two selectors
NoSelector == [kind |-> "none", a |-> 0, b |-> 0]
NoCall == [name |-> "none", on |-> "none", rowsel |-> NoSelector, colsel |-> NoSelector]
\* a run of consecutive t() calls on one matrix: the matrix it started from
NoRun == [on |-> "none", count |-> 0, from |-> NoMatrix]

\* ---- operands of the operator algebra ----
Dims == 1..MaxDim

\* the literal 1, 2, 3, ... in row-major order: every slot differs
Literal(len) == [k \in 1..len |-> k]

Inputs ==
    {[mat(r, c, Literal(r * c)) EXCEPT !.transposed = tr, !.pointwise = pw] :
        r \in Dims, c \in Dims, tr \in BOOLEAN, pw \in BOOLEAN}

Plain == {x \in Inputs : ~x.transposed /\ ~x.pointwise}

\* results of a subexpression a * b, to stand as a Result operand
SideResults == {mul_MM(a, b).out : a \in Plain, b \in Plain}

\* the Result operands at hand: the chain's last result, or a subexpression's
Results == SideResults \cup (IF n > 0 THEN {res} ELSE {})

AsM(x) == [kind |-> "M", mat |-> x, result |-> NoResult]
AsR(x) == [kind |-> "R", mat |-> NoMatrix, result |-> x]
NoOperand == [kind |-> "none", mat |-> NoMatrix, result |-> NoResult]

\* a chain continues from its last result: past the first operator, that
\* result is one of the operands
Chained(x) == n = 0 \/ x = res

\* the operators take their operands by value: one can be applied when the
\* last result has been bound (no operation is in progress)
CanApply == op = "none" /\ n < MaxChain

Step(o, l, r, c) ==
    /\ lhs' = l
    /\ rhs' = r
    /\ op' = o
    /\ res' = c.out
    /\ kernel' = c.kernel
    /\ n' = n + 1
    /\ UNCHANGED memvars

MulMM ==
    /\ CanApply
    /\ \E a \in Inputs, b \in Inputs :
          n = 0 /\ Step("mul", AsM(a), AsM(b), mul_MM(a, b))
MulMR ==
    /\ CanApply
    /\ \E a \in Inputs, b \in Results :
          Chained(b) /\ Step("mul", AsM(a), AsR(b), mul_MR(a, b))
MulRM ==
    /\ CanApply
    /\ \E a \in Results, b \in Inputs :
          Chained(a) /\ Step("mul", AsR(a), AsM(b), mul_RM(a, b))
MulRR ==
    /\ CanApply
    /\ \E a \in Results, b \in Results :
          (Chained(a) \/ Chained(b)) /\ Step("mul", AsR(a), AsR(b), mul_RR(a, b))

AddMM ==
    /\ CanApply
    /\ \E a \in Inputs, b \in Inputs :
          n = 0 /\ Step("add", AsM(a), AsM(b), add_MM(a, b))
AddMR ==
    /\ CanApply
    /\ \E a \in Inputs, b \in Results :
          Chained(b) /\ Step("add", AsM(a), AsR(b), add_MR(a, b))
AddRM ==
    /\ CanApply
    /\ \E a \in Results, b \in Inputs :
          Chained(a) /\ Step("add", AsR(a), AsM(b), add_RM(a, b))
AddRR ==
    /\ CanApply
    /\ \E a \in Results, b \in Results :
          (Chained(a) \/ Chained(b)) /\ Step("add", AsR(a), AsR(b), add_RR(a, b))

SubMM ==
    /\ CanApply
    /\ \E a \in Inputs, b \in Inputs :
          n = 0 /\ Step("sub", AsM(a), AsM(b), sub_MM(a, b))
SubMR ==
    /\ CanApply
    /\ \E a \in Inputs, b \in Results :
          Chained(b) /\ Step("sub", AsM(a), AsR(b), sub_MR(a, b))
SubRM ==
    /\ CanApply
    /\ \E a \in Results, b \in Inputs :
          Chained(a) /\ Step("sub", AsR(a), AsM(b), sub_RM(a, b))
SubRR ==
    /\ CanApply
    /\ \E a \in Results, b \in Results :
          (Chained(a) \/ Chained(b)) /\ Step("sub", AsR(a), AsR(b), sub_RR(a, b))

MemIdle ==
    /\ mem = <<>>
    /\ m = NoMatrix
    /\ d = NoMatrix
    /\ last = NoCall
    /\ calls = 0
    /\ tsnap = NoRun
    /\ tcalls = 0
    /\ pcalled = FALSE
    /\ seen = {}
    /\ oob = FALSE

\* let r = <expression>: the result is bound and its operands are gone
Bind ==
    /\ op # "none"
    /\ lhs' = NoOperand
    /\ rhs' = NoOperand
    /\ op' = "none"
    /\ kernel' = "none"
    /\ UNCHANGED <<res, n>>
    /\ UNCHANGED memvars

InitOps ==
    /\ lhs = NoOperand
    /\ rhs = NoOperand
    /\ op = "none"
    /\ res = NoResult
    /\ kernel = "none"
    /\ n = 0
    /\ MemIdle

NextOps ==
    \/ MulMM \/ MulMR \/ MulRM \/ MulRR
    \/ AddMM \/ AddMR \/ AddRM \/ AddRR
    \/ SubMM \/ SubMR \/ SubRM \/ SubRR
    \/ Bind

SpecOps == InitOps /\ [][NextOps]_vars

\* ---- properties of the operator algebra ----
Applied == op # "none"
\* the operands of the operation just applied, each as a Result
L == IF lhs.kind = "M" THEN Ok(lhs.mat) ELSE lhs.result
R == IF rhs.kind = "M" THEN Ok(rhs.mat) ELSE rhs.result
A == L.val
B == R.val
BothOk == Applied /\ L.ok /\ R.ok
SameShape == A.rows = B.rows /\ A.cols = B.cols
Shape(x) == <<x.rows, x.cols>>
Pointwise == A.pointwise \/ B.pointwise

\* an operation on an Err operand returned that Err and ran no kernel
ErrReturned ==
    (Applied /\ (~L.ok \/ ~R.ok)) =>
        /\ res = (IF ~L.ok THEN L ELSE R)
        /\ kernel = "none"

\* a chain step from an Err result: the result stays
ErrKept ==
    (n > 0 /\ ~res.ok /\ op = "none" /\ op' # "none"
        /\ lhs'.kind = "R" /\ lhs'.result = res) => res' = res

\* C1: every operator on every operand shape returns an Err operand's error
\* unchanged without running a kernel, the left one when both are Err; a
\* left-to-right chain whose result is Err(e) keeps Err(e) at every later step
C1_ErrAbsorbing == []ErrReturned /\ [][ErrKept]_vars

C1_Witness ==
    /\ Applied /\ n = MaxChain
    /\ lhs.kind = "R" /\ rhs.kind = "R"
    /\ ~lhs.result.ok /\ ~rhs.result.ok
    /\ lhs.result.err # rhs.result.err
    /\ res = lhs.result

\* C2: A * B on two Ok operands runs pointwisemul when a pointwise flag is
\* set and matmul otherwise; with a flag set the result is Ok with slot
\* k = A[k] * B[k] exactly when the shapes are equal, and Err otherwise
C2_PointwiseDispatch ==
    (BothOk /\ op = "mul") =>
        /\ kernel = (IF Pointwise THEN "pointwisemul" ELSE "matmul")
        /\ Pointwise =>
              /\ res.ok <=> SameShape
              /\ res.ok =>
                    /\ Shape(res.val) = Shape(A)
                    /\ Len(res.val.data) = A.rows * A.cols
                    /\ \A k \in 1..(A.rows * A.cols) :
                          res.val.data[k] = TMul(A.data[k], B.data[k])

C2_Witness ==
    /\ BothOk /\ op = "mul"
    /\ ~A.pointwise /\ B.pointwise
    /\ A.cols = B.rows /\ ~SameShape
    /\ ~res.ok

\* the sum over k < upto of A[i, k] * B[k, j], from zero
RECURSIVE DotSum(_, _, _)
DotSum(i, j, upto) ==
    IF upto = 0 THEN 0
    ELSE TAdd(DotSum(i, j, upto - 1),
              TMul(A.data[i * A.cols + (upto - 1) + 1],
                   B.data[(upto - 1) * B.cols + j + 1]))

\* C3: without a pointwise flag A * B is Ok exactly when A.cols = B.rows, and
\* then has shape (A.rows, B.cols) with slot (i, j) the sum of A[i,k] * B[k,j]
C3_Matmul ==
    (BothOk /\ op = "mul" /\ ~Pointwise) =>
        /\ res.ok <=> (A.cols = B.rows)
        /\ res.ok =>
              /\ Shape(res.val) = <<A.rows, B.cols>>
              /\ Len(res.val.data) = A.rows * B.cols
              /\ \A i \in 0..(A.rows - 1), j \in 0..(B.cols - 1) :
                    res.val.data[i * B.cols + j + 1] = DotSum(i, j, A.cols)

C3_Witness ==
    /\ BothOk /\ op = "mul" /\ ~Pointwise
    /\ res.ok
    /\ A.rows # A.cols /\ A.cols > 1 /\ B.cols > 1
    /\ res.val.data[A.rows * B.cols] # 0

\* C4: A + B and A - B are Ok exactly on equal shapes, slot by slot the sum or
\* the difference, and otherwise Err with both shapes; no flag is consulted
C4_AddSub ==
    (BothOk /\ op \in {"add", "sub"}) =>
        /\ kernel = (IF op = "add" THEN "matadd" ELSE "matsub")
        /\ IF SameShape
           THEN /\ res.ok
                /\ Shape(res.val) = Shape(A)
                /\ Len(res.val.data) = A.rows * A.cols
                /\ \A k \in 1..(A.rows * A.cols) :
                      res.val.data[k] = (IF op = "add"
                                         THEN TAdd(A.data[k], B.data[k])
                                         ELSE TSub(A.data[k], B.data[k]))
           ELSE res = Err(<<Shape(A), Shape(B)>>)

C4_Witness ==
    /\ BothOk /\ op = "sub" /\ n = MaxChain
    /\ A.data # B.data
    /\ B.transposed /\ B.pointwise
    /\ res.ok
    /\ A.rows * A.cols > 1

\* C5: a failed multiplication carries ((0, A.cols), (B.rows, 0)) from matmul
\* and ((A.rows, A.cols), (B.rows, B.cols)) from pointwisemul, and no matrix
C5_MulErrorPayload ==
    (BothOk /\ op = "mul" /\ ~res.ok) =>
        /\ res.val = NoMatrix
        /\ kernel = "matmul" =>
              /\ A.cols # B.rows
              /\ res.err = <<<<0, A.cols>>, <<B.rows, 0>>>>
        /\ kernel = "pointwisemul" =>
              /\ ~SameShape
              /\ res.err = <<<<A.rows, A.cols>>, <<B.rows, B.cols>>>>

C5_Witness ==
    /\ BothOk /\ op = "mul" /\ ~res.ok
    /\ kernel = "matmul"
    /\ A.rows > 1 /\ B.cols > 1


(***************************************************************************)
(* The storage model.  mem is the memory the allocator hands blocks out    *)
(* of, one element per address; a matrix's data is the address of its      *)
(* block.  Addresses from HeapSize on are never handed out.                *)
(***************************************************************************)
Reach == MaxCols * MaxCols
MemSize == HeapSize + Reach
Addresses == 0..(MemSize - 1)

NoHandle ==
    [rows |-> 0, cols |-> 0, data |-> 0,
     scale |-> 0, shift |-> 0, transposed |-> FALSE, pointwise |-> FALSE]

Held(h) == h.rows > 0
BlockOf(h) == IF Held(h) THEN h.data..(h.data + h.rows * h.cols - 1) ELSE {}

\* ---- helpers/memory.rs ----
\* the places the allocator may return a block of len slots from: any run
\* of free addresses
allocate(len, live) ==
    IF len > 0
    THEN {base \in 0..(HeapSize - len) : (base..(base + len - 1)) \cap live = {}}
    ELSE {}

copymemory(memory, src, dst, lo, hi, offset) ==
    [a \in Addresses |->
        IF a >= dst + offset /\ a < dst + offset + (hi - lo)
        THEN memory[src + lo + (a - (dst + offset))]
        ELSE memory[a]]

\* ---- Matrix on the memory ----
\* a call's outcome: the memory and the matrix after it
After(memory, h) == [mem |-> memory, mat |-> h]

\* Matrix::new with its block at base: zeroed by alloc_zeroed and again by
\* the writes of new
new_at(memory, base, rows, cols) ==
    After([a \in Addresses |->
              IF a >= base /\ a < base + rows * cols THEN 0 ELSE memory[a]],
          [new(rows, cols) EXCEPT !.data = base])

\* mat!: the literal copied over the block
mat_at(memory, base, rows, cols, lit) ==
    LET made == new_at(memory, base, rows, cols)
    IN After([a \in Addresses |->
                 IF a >= base /\ a < base + Len(lit) THEN lit[a - base + 1]
                 ELSE made.mem[a]],
             made.mat)

\* the slot get_data_mut_unchecked(index) refers to
address(h, index) == h.data + index

\* Index::index, past its two assertions
index(memory, h, i, j) == memory[h.data + i * h.cols + j]

\* the matrix as a value: its fields and the slots of its block
View(memory, h) ==
    IF Held(h)
    THEN [h EXCEPT !.data = [k \in 1..(h.rows * h.cols) |-> memory[h.data + k - 1]]]
    ELSE NoMatrix

dup(memory, self, base) ==
    LET result == new_at(memory, base, self.rows, self.cols)
    IN After(copymemory(result.mem, self.data, result.mat.data,
                        0, self.rows * self.cols, 0),
             result.mat)

\* ---- helpers/traits.rs: AsIndex ----
Some(x) == [some |-> TRUE, v |-> x]
None == [some |-> FALSE, v |-> 0]

start(sel) ==
    CASE sel.kind = "usize" -> Some(sel.a)
      [] sel.kind = "Range" -> Some(sel.a)
      [] sel.kind = "RangeFull" -> None
      [] sel.kind = "RangeInclusive" -> Some(sel.a)
      [] sel.kind = "RangeFrom" -> Some(sel.a)
      [] sel.kind = "RangeTo" -> None
      [] sel.kind = "RangeToInclusive" -> None

end(sel) ==
    CASE sel.kind = "usize" -> Some(sel.a + 1)
      [] sel.kind = "Range" -> Some(sel.b)
      [] sel.kind = "RangeFull" -> None
      [] sel.kind = "RangeInclusive" -> Some(sel.b + 1)
      [] sel.kind = "RangeFrom" -> None
      [] sel.kind = "RangeTo" -> Some(sel.b)
      [] sel.kind = "RangeToInclusive" -> Some(sel.b + 1)

\* get_bounds: the four ends, and whether its four assertions pass
get_bounds(self, rows, cols) ==
    LET row_start == IF start(rows).some THEN start(rows).v ELSE 0
        row_end == IF end(rows).some THEN end(rows).v ELSE self.rows
        col_start == IF start(cols).some THEN start(cols).v ELSE 0
        col_end == IF end(cols).some THEN end(cols).v ELSE self.cols
    IN [row_start |-> row_start, row_end |-> row_end,
        col_start |-> col_start, col_end |-> col_end,
        passes |-> /\ row_end <= self.rows
                   /\ col_end <= self.cols
                   /\ row_start < row_end
                   /\ col_start < col_end]

\* the loop of get: one copymemory per selected row
RECURSIVE get_loop(_, _, _, _, _)
get_loop(memory, self, result, bounds, i) ==
    IF i >= bounds.row_end THEN memory
    ELSE get_loop(copymemory(memory, self.data, result.data,
                             i * self.cols + bounds.col_start,
                             i * self.cols + bounds.col_end,
                             (i - bounds.row_start) * result.cols),
                  self, result, bounds, i + 1)

\* get placing each row by the source's stride
RECURSIVE get_loop_srcstride(_, _, _, _, _)
get_loop_srcstride(memory, self, result, bounds, i) ==
    IF i >= bounds.row_end THEN memory
    ELSE get_loop_srcstride(copymemory(memory, self.data, result.data,
                                       i * self.cols + bounds.col_start,
                                       i * self.cols + bounds.col_end,
                                       (i - bounds.row_start) * self.cols),
                            self, result, bounds, i + 1)

get_srcstride(memory, self, bounds, base) ==
    LET result == new_at(memory, base, bounds.row_end - bounds.row_start,
                         bounds.col_end - bounds.col_start)
    IN After(get_loop_srcstride(result.mem, self, result.mat, bounds, bounds.row_start),
             result.mat)

get(memory, self, bounds, base) ==
    LET result == new_at(memory, base, bounds.row_end - bounds.row_start,
                         bounds.col_end - bounds.col_start)
    IN After(get_loop(result.mem, self, result.mat, bounds, bounds.row_start),
             result.mat)

scale(memory, self, by) ==
    After([a \in Addresses |->
              IF a \in BlockOf(self) THEN TMul(memory[a], by) ELSE memory[a]],
          [self EXCEPT !.scale = TMul(@, by)])

shift(memory, self, by) ==
    After([a \in Addresses |->
              IF a \in BlockOf(self) THEN TAdd(memory[a], by) ELSE memory[a]],
          [self EXCEPT !.shift = TAdd(@, by)])

\* p toggling the flag, as t does its own
p_toggle(self) == [self EXCEPT !.pointwise = ~@]

p(self) == [self EXCEPT !.pointwise = TRUE]

\* IndexMut::index_mut and the assignment through it, past its assertions
index_mut(memory, self, i, j, v) ==
    After([memory EXCEPT ![self.data + i * self.cols + j] = v], self)

\* the two loops of t: for i in 0..rows - 1, for j in i + 1..cols, swap the
\* slots at i * cols + j and j * cols + i, wherever those addresses are;
\* out records whether one of them was outside the block
RECURSIVE t_loop(_, _, _, _, _)
t_loop(memory, self, i, j, out) ==
    IF i >= self.rows - 1 THEN [mem |-> memory, out |-> out]
    ELSE IF j >= self.cols THEN t_loop(memory, self, i + 1, i + 2, out)
    ELSE LET x == address(self, i * self.cols + j)
             y == address(self, j * self.cols + i)
         IN t_loop([memory EXCEPT ![x] = memory[y], ![y] = memory[x]],
                   self, i, j + 1,
                   out \/ x \notin BlockOf(self) \/ y \notin BlockOf(self))

\* t assigning one way where it should swap
RECURSIVE t_loop_assign(_, _, _, _, _)
t_loop_assign(memory, self, i, j, out) ==
    IF i >= self.rows - 1 THEN [mem |-> memory, out |-> out]
    ELSE IF j >= self.cols THEN t_loop_assign(memory, self, i + 1, i + 2, out)
    ELSE LET x == address(self, i * self.cols + j)
             y == address(self, j * self.cols + i)
         IN t_loop_assign([memory EXCEPT ![x] = memory[y]],
                          self, i, j + 1,
                          out \/ x \notin BlockOf(self) \/ y \notin BlockOf(self))

t_assign(memory, self) ==
    LET swapped == t_loop_assign(memory, self, 0, 1, FALSE)
    IN [mem |-> swapped.mem,
        mat |-> [self EXCEPT !.transposed = ~self.transposed,
                             !.rows = self.cols, !.cols = self.rows],
        out |-> swapped.out]

t(memory, self) ==
    LET swapped == t_loop(memory, self, 0, 1, FALSE)
    IN [mem |-> swapped.mem,
        mat |-> [self EXCEPT !.transposed = ~self.transposed,
                             !.rows = self.cols, !.cols = self.rows],
        out |-> swapped.out]

\* ---- the calls on the two matrices ----
Scalars == {3}
Shifts == {1}
Written == {9}
Positions == (0..1) \X (0..1)
Junk == {0, 170}

OpsIdle ==
    /\ lhs = NoOperand
    /\ rhs = NoOperand
    /\ op = "none"
    /\ res = NoResult
    /\ kernel = "none"
    /\ n = 0

Flags(h) == <<h.transposed, h.pointwise>>

\* m is made by new, or by mat! from the literal 1, 2, 3, ...; what the rest
\* of the memory holds is not known
InitMem ==
    /\ OpsIdle
    /\ \E rows \in 1..MaxRows, cols \in 1..MaxCols, junk \in Junk :
         \E base \in allocate(rows * cols, {}),
            lit \in {<<>>, Literal(rows * cols)} :
            LET made == mat_at([a \in Addresses |-> junk], base, rows, cols, lit)
            IN /\ mem = made.mem
               /\ m = made.mat
               /\ seen = {Flags(made.mat)}
    /\ d = NoHandle
    /\ last = NoCall
    /\ calls = 0
    /\ tsnap = NoRun
    /\ tcalls = 0
    /\ pcalled = FALSE
    /\ oob = FALSE

Handle(x) == IF x = "m" THEN m ELSE d
Called(name, x) == [NoCall EXCEPT !.name = name, !.on = x]

\* a method called on matrix x (m or d) leaves the memory and x as after
Method(name, x, after) ==
    /\ mem' = after.mem
    /\ IF x = "m" THEN m' = after.mat /\ d' = d
                  ELSE d' = after.mat /\ m' = m
    /\ last' = Called(name, x)
    /\ calls' = calls + 1
    /\ seen' = seen \cup {Flags(IF x = "m" THEN after.mat ELSE m)}
    /\ UNCHANGED opvars

CanCall(x) == calls < MaxOps /\ Held(Handle(x))

Scale ==
    \E x \in {"m", "d"}, by \in Scalars :
        /\ CanCall(x)
        /\ Method("scale", x, scale(mem, Handle(x), by))
        /\ tsnap' = NoRun
        /\ UNCHANGED <<tcalls, pcalled, oob>>

Shift ==
    \E x \in {"m", "d"}, by \in Shifts :
        /\ CanCall(x)
        /\ Method("shift", x, shift(mem, Handle(x), by))
        /\ tsnap' = NoRun
        /\ UNCHANGED <<tcalls, pcalled, oob>>

P ==
    \E x \in {"m", "d"} :
        /\ CanCall(x)
        /\ Method("p", x, After(mem, p(Handle(x))))
        /\ pcalled' = (pcalled \/ x = "m")
        /\ tsnap' = NoRun
        /\ UNCHANGED <<tcalls, oob>>

T ==
    \E x \in {"m", "d"} :
        /\ CanCall(x)
        /\ LET after == t(mem, Handle(x))
           IN /\ Method("t", x, after)
              /\ oob' = (oob \/ after.out)
        /\ tsnap' = (IF tsnap.on = x /\ tsnap.count = 1
                     THEN [tsnap EXCEPT !.count = 2]
                     ELSE [on |-> x, count |-> 1, from |-> View(mem, Handle(x))])
        /\ tcalls' = (IF x = "m" THEN tcalls + 1 ELSE tcalls)
        /\ UNCHANGED pcalled

\* x[(i, j)] = v
Write ==
    \E x \in {"m", "d"}, pos \in Positions, v \in Written :
        /\ CanCall(x)
        /\ pos[1] < Handle(x).rows
        /\ pos[2] < Handle(x).cols
        /\ Method("index_mut", x, index_mut(mem, Handle(x), pos[1], pos[2], v))
        /\ tsnap' = NoRun
        /\ UNCHANGED <<tcalls, pcalled, oob>>

\* d = m.dup()
Dup ==
    /\ calls < MaxOps
    /\ ~Held(d)
    /\ \E base \in allocate(m.rows * m.cols, BlockOf(m)) :
          LET after == dup(mem, m, base)
          IN /\ mem' = after.mem
             /\ d' = after.mat
    /\ last' = Called("dup", "d")
    /\ calls' = calls + 1
    /\ tsnap' = NoRun
    /\ UNCHANGED <<m, tcalls, pcalled, seen, oob>>
    /\ UNCHANGED opvars

NextMat == Scale \/ Shift \/ P \/ T \/ Write \/ Dup

SpecMat == InitMem /\ [][NextMat]_vars

\* ---- d = m.get(rows, cols) ----
Indices == 0..(MaxCols + 1)

\* both selectors of a call are of one type U
Selectors ==
    [kind : {"usize", "RangeFrom", "RangeTo", "RangeToInclusive"},
     a : Indices, b : {0}]
    \cup [kind : {"Range", "RangeInclusive"}, a : Indices, b : Indices]
    \cup [kind : {"RangeFull"}, a : {0}, b : {0}]

Get ==
    /\ calls < MaxOps
    /\ ~Held(d)
    /\ last.name # "panic"
    /\ \E rows \in Selectors, cols \in Selectors :
          /\ rows.kind = cols.kind
          /\ LET bounds == get_bounds(m, rows, cols)
             IN \/ /\ bounds.passes
                   /\ \E base \in allocate((bounds.row_end - bounds.row_start)
                                               * (bounds.col_end - bounds.col_start),
                                            BlockOf(m)) :
                         LET after == get(mem, m, bounds, base)
                         IN /\ mem' = after.mem
                            /\ d' = after.mat
                   /\ last' = [Called("get", "d") EXCEPT !.rowsel = rows, !.colsel = cols]
                \/ /\ ~bounds.passes
                   /\ last' = [Called("panic", "d") EXCEPT !.rowsel = rows, !.colsel = cols]
                   /\ UNCHANGED <<mem, d>>
    /\ calls' = calls + 1
    /\ UNCHANGED <<m, tsnap, tcalls, pcalled, seen, oob>>
    /\ UNCHANGED opvars

NextGet == Get

SpecGet == InitMem /\ [][NextGet]_vars

\* ---- properties of the storage model ----
\* a selector resolved against an extent: <<start, end>>, half-open
Resolve(sel, extent) ==
    CASE sel.kind = "usize" -> <<sel.a, sel.a + 1>>
      [] sel.kind = "Range" -> <<sel.a, sel.b>>
      [] sel.kind = "RangeInclusive" -> <<sel.a, sel.b + 1>>
      [] sel.kind = "RangeFrom" -> <<sel.a, extent>>
      [] sel.kind = "RangeTo" -> <<0, sel.b>>
      [] sel.kind = "RangeToInclusive" -> <<0, sel.b + 1>>
      [] sel.kind = "RangeFull" -> <<0, extent>>

GetCalled == calls' = calls + 1 /\ last'.name \in {"get", "panic"}

GetStep ==
    GetCalled =>
        LET rr == Resolve(last'.rowsel, m.rows)
            cc == Resolve(last'.colsel, m.cols)
        IN (rr[1] < rr[2] /\ rr[2] <= m.rows /\ cc[1] < cc[2] /\ cc[2] <= m.cols) =>
              /\ last'.name = "get"
              /\ d'.rows = rr[2] - rr[1]
              /\ d'.cols = cc[2] - cc[1]
              /\ \A i \in 0..(rr[2] - rr[1] - 1), j \in 0..(cc[2] - cc[1] - 1) :
                    index(mem', d', i, j) = index(mem, m, rr[1] + i, cc[1] + j)
              /\ m' = m
              /\ View(mem', m') = View(mem, m)

C7_TransposeTwice ==
    (tsnap.count = 2 /\ tsnap.from.rows = tsnap.from.cols) =>
        LET now == View(mem, Handle(tsnap.on))
        IN /\ now.rows = tsnap.from.rows
           /\ now.cols = tsnap.from.cols
           /\ now.data = tsnap.from.data
           /\ now.transposed = tsnap.from.transposed

C7_Witness ==
    /\ tsnap.count = 2
    /\ tsnap.from.rows = 2 /\ tsnap.from.cols = 2
    /\ tsnap.from.data[2] # tsnap.from.data[3]
    /\ last = Called("t", tsnap.on)

\* the calls on one matrix leave the other as it was
MethodCalled(x) == Held(d) /\ calls' = calls + 1 /\ last'.on = x

DupStep ==
    /\ (calls' = calls + 1 /\ last'.name = "dup") =>
          /\ d'.rows = m.rows /\ d'.cols = m.cols
          /\ View(mem', d').data = View(mem, m).data
          /\ ~d'.transposed /\ ~d'.pointwise
          /\ BlockOf(d') \cap BlockOf(m) = {}
          /\ View(mem', m') = View(mem, m)
    /\ MethodCalled("d") => View(mem', m') = View(mem, m)
    /\ MethodCalled("m") => View(mem', d') = View(mem, d)

\* C8: dup(M) has M's shape and slots, both flags false and storage of its
\* own: no scale, shift, t or element write on the duplicate changes a slot,
\* the shape or a flag of M, nor one on M the duplicate
C8_DupIndependent == [][DupStep]_vars

\* C9: on a matrix made by new both flags start false, pointwise is true from
\* the first p() on, transposed is the parity of the t() calls made, and
\* scale, shift and element writes change neither
C9_Flags ==
    /\ m.transposed = (tcalls % 2 = 1)
    /\ m.pointwise = pcalled

\* all four flag states have been gone through
C9_Witness ==
    /\ seen = BOOLEAN \X BOOLEAN
    /\ Flags(m) = <<FALSE, TRUE>>
    /\ tcalls = 2

\* C10: t() stays inside the block of the matrix, whatever its shape, and
\* the block still holds rows * cols slots after it
C10_TInBlock ==
    /\ ~oob
    /\ Held(m) => Cardinality(BlockOf(m)) = m.rows * m.cols

====
